---- MODULE Spec2Model ----
(***************************************************************************)
(* Model of the repository's certificate sources.                          *)
(*                                                                         *)
(* certdir.Run: the poll loop that watches fullchain.pem / privkey.pem,    *)
(* preempts the running consumer f when their modification times change,   *)
(* waits for it, loads the new pair and starts f again.                    *)
(*                                                                         *)
(* The goroutine started by Run reads the variables fctx and errCh of Run  *)
(* (both captured by reference, both reassigned by Run): fctx when it      *)
(* calls f, errCh when it sends f's result (the channel operand is read    *)
(* after f has returned) and once more for close(errCh).  The read for     *)
(* close is not ordered with Run's next "errCh = make(...)": a data race.  *)
(* Each such read yields either the value the goroutine was started with   *)
(* (or last read) or the value the variable holds now.                     *)
(*                                                                         *)
(* The channel producers, each under a specification of its own: FromDir   *)
(* with Times and FromCommand of package certs (CertsFromDirSpec,          *)
(* CertsFromCommandSpec), FromDir and FromCommand of package certdir       *)
(* (CertdirFromDirSpec, CertdirFromCommandSpec).  Run is not called in     *)
(* these, and they are not called in the specifications of Run.            *)
(***************************************************************************)
EXTENDS Naturals, Integers, Sequences, FiniteSets, TLC

\* Bounds of the model.
MaxInv == 3        \* invocations of f one call to Run may start
MaxTime == 2       \* modification times are 1..MaxTime
MaxOps == 2        \* writes and removals the directory goes through
MaxRecords == 2    \* records the subprocess of FromCommand writes

VARIABLES
    certFile,   \* fullchain.pem: [present, mtime, gen]
    keyFile,    \* privkey.pem:   [present, mtime, gen]
    envpc,      \* the renewing agent: "idle", or "key" between its two writes
    gen,        \* renewals begun so far
    nops,       \* writes and removals so far
    outerDone,  \* the context passed to Run is cancelled
    pc,         \* Run's position
    last,       \* Run's variable last (timePair)
    next,       \* Run's variable next (timePair)
    errCh,      \* Run's variable errCh: 0 is nil, else a channel
    fctx,       \* Run's variables fctx/fcancel: the context they denote
    err,        \* the value received at "err := <-errCh" in the drain branch
    cert,       \* what tls.LoadX509KeyPair has read so far
    ret,        \* Run's return value
    retAt,      \* the return statement Run left through
    runDone,    \* Run's own context (ctx, cancel := WithCancel(ctx)) is cancelled
    fdone,      \* fdone[c]: context c made by WithCancel(ctx) is cancelled
    ninv,       \* goroutines started so far; goroutine n got channel n, context n
    chans,      \* chans[n]: [buf, closed] of the n-th make(chan error, 1)
    g,          \* g[n]: the n-th goroutine
    panicked,   \* the process died of a runtime panic
    preempted,  \* history: contexts on which Run called fcancel before draining
    recvd,      \* history: goroutines whose result Run has received
    got,        \* history: the goroutine whose result Run received last (0: none)
    shutInDrain, \* history: the outer cancellation came between fcancel and start
    tm,         \* the goroutine of certs.Times and its channel
    fd,         \* the goroutine of FromDir (certs or certdir) and its channel
    fc,         \* the goroutine of FromCommand (certs or certdir), its channel, cmd
    rx          \* the certificates the caller has received from the channel

vars == <<certFile, keyFile, envpc, gen, nops, outerDone, pc, last, next, errCh, fctx,
          err, cert, ret, retAt, runDone, fdone, ninv, chans, g, panicked,
          preempted, recvd, got, shutInDrain, tm, fd, fc, rx>>

envVars == <<certFile, keyFile, envpc, gen, nops>>
runVars == <<pc, last, next, errCh, fctx, err, cert, ret, retAt>>
hist == <<recvd, got, shutInDrain>>
runState == <<runVars, runDone, fdone, ninv, chans, g, panicked, preempted, hist>>
prodVars == <<tm, fd, fc, rx>>

Invs == 1..MaxInv
Times == 1..MaxTime

\* What f (and so a channel) can carry: nil, an error that is not
\* context.Canceled, an error that is context.Canceled.
Nil == "nil"
Boom == "boom"
Canceled == "canceled"
Results == {Nil, Boom, Canceled}

Absent == [present |-> FALSE, mtime |-> 0, gen |-> 0]

File(t, n) == [present |-> TRUE, mtime |-> t, gen |-> n]

\* The zero value of timePair.
ZeroPair == [cert |-> 0, key |-> 0]

\* A loaded certificate: the renewals and modification times of the two files
\* as read (seen is history: the results Run had received when it read them).
NoCert == [certgen |-> 0, keygen |-> 0, certtime |-> 0, keytime |-> 0,
           seen |-> {}]

\* (why is history: what had been cancelled when f returned.)
NoGoroutine == [st |-> "none", ctx |-> 0, cert |-> NoCert, res |-> Nil,
                ch |-> 0, why |-> "none"]

EmptyChan == [buf |-> <<>>, closed |-> FALSE]

\* The goroutine of certs.Times, not started: its position, the variables
\* latest and newLatest (0 is the zero time), *errptr, whether ch is closed
\* (cur and prev are history: the time of fullchain.pem this poll saw, the
\* pair of times the previous poll saw).
NoTimes == [pc |-> "none", latest |-> 0, newLatest |-> 0, errptr |-> Nil,
            closed |-> FALSE, cur |-> 0, prev |-> ZeroPair]

\* The goroutine of FromDir, not started: its position, *errptr, whether ch is
\* closed, the renewals of the blocks read, and (certdir.FromDir only) the
\* variables lastCertTime/lastKeyTime and newCertTime/newKeyTime.
NoFromDir == [pc |-> "none", errptr |-> Nil, closed |-> FALSE, certgen |-> 0,
              keygen |-> 0, last |-> ZeroPair, new |-> ZeroPair]

\* The goroutine of FromCommand, not started: its position, *errptr, whether
\* ch is closed, the records the subprocess has still to write, the record
\* decoded, the subprocess's exit error, and the result of wait.
NoFromCommand == [pc |-> "none", errptr |-> Nil, closed |-> FALSE,
                  out |-> <<>>, pair |-> "none", exit |-> Nil,
                  waitErr |-> Nil, waited |-> FALSE, res |-> {}]

\* None of FromDir, FromCommand and Times has been called.
NoProducers ==
    /\ tm = NoTimes
    /\ fd = NoFromDir
    /\ fc = NoFromCommand
    /\ rx = <<>>

\* timePair.equal
equal(p, other) == p.cert = other.cert /\ p.key = other.key

\* tls.X509KeyPair on what was read: it fails unless the key is the
\* certificate's key, that is, unless both blocks come from the same renewal.
X509KeyPairOK(certgen, keygen) == certgen = keygen

\* The directory as Run finds it: the two files, no renewal underway, the
\* caller's context live.
Dir(c, k) ==
    /\ certFile = c
    /\ keyFile = k
    /\ envpc = "idle"
    /\ gen = 0
    /\ nops = 0
    /\ outerDone = FALSE

\* Run at its entry: "var last timePair; var errCh chan error", the ticker, ctx
\* and fctx made, nothing started.
Entry ==
    /\ pc = "check"
    /\ last = ZeroPair
    /\ next = ZeroPair
    /\ errCh = 0
    /\ fctx = 0
    /\ err = Nil
    /\ cert = NoCert
    /\ ret = "none"
    /\ retAt = "none"
    /\ runDone = FALSE
    /\ fdone = [c \in 0..MaxInv |-> FALSE]
    /\ ninv = 0
    /\ chans = [n \in Invs |-> EmptyChan]
    /\ g = [n \in Invs |-> NoGoroutine]
    /\ panicked = FALSE
    /\ preempted = {}
    /\ recvd = {}
    /\ got = 0
    /\ shutInDrain = FALSE

Init ==
    /\ \/ Dir(Absent, Absent)
       \/ Dir(File(1, 0), File(1, 0))
    /\ Entry
    /\ NoProducers

----------------------------------------------------------------------------
\* The directory and the outer context.

\* The renewing agent replaces fullchain.pem: a renewal begins.
WriteCert ==
    /\ ~panicked /\ pc # "done" /\ envpc = "idle" /\ nops < MaxOps
    /\ \E t \in Times : certFile' = File(t, gen + 1)
    /\ gen' = gen + 1
    /\ nops' = nops + 1
    /\ envpc' = "key"
    /\ UNCHANGED <<prodVars, keyFile, outerDone, runVars, runDone, fdone, ninv, chans, g,
                   panicked, preempted, hist>>

\* The renewing agent replaces privkey.pem: the renewal ends.
WriteKey ==
    /\ ~panicked /\ pc # "done" /\ envpc = "key" /\ nops < MaxOps
    /\ \E t \in Times : keyFile' = File(t, gen)
    /\ nops' = nops + 1
    /\ envpc' = "idle"
    /\ UNCHANGED <<prodVars, certFile, gen, outerDone, runVars, runDone, fdone, ninv,
                   chans, g, panicked, preempted, hist>>

\* A watched file disappears.
RemoveFile ==
    /\ ~panicked /\ pc # "done" /\ envpc = "idle" /\ nops < MaxOps
    /\ \/ certFile.present /\ certFile' = Absent /\ UNCHANGED keyFile
       \/ keyFile.present /\ keyFile' = Absent /\ UNCHANGED certFile
    /\ nops' = nops + 1
    /\ UNCHANGED <<prodVars, envpc, gen, outerDone, runVars, runDone, fdone, ninv, chans,
                   g, panicked, preempted, hist>>

\* cancel of a context: the context and every context derived from it.
CancelAll == [c \in 0..MaxInv |-> TRUE]

\* Run has called fcancel for a replacement and not yet started it.
InDrain == errCh # 0 /\ pc \in {"drain", "inspect", "load_cert", "load_key", "start"}

\* The caller cancels the context it passed to Run.
OuterCancel ==
    /\ ~panicked /\ ~outerDone /\ pc # "done"
    /\ outerDone' = TRUE
    /\ runDone' = TRUE
    /\ fdone' = CancelAll
    /\ shutInDrain' = InDrain
    /\ UNCHANGED <<prodVars, envVars, runVars, ninv, chans, g, panicked, preempted, recvd,
                   got>>

----------------------------------------------------------------------------
\* Run.

\* A return statement of Run, with its deferred fcancel()s, cancel() and
\* ticker.Stop().  (The locals next, err and cert die with the frame: the
\* model clears them.)
Return(v, at) ==
    /\ pc' = "done"
    /\ ret' = v
    /\ retAt' = at
    /\ runDone' = TRUE
    /\ fdone' = CancelAll
    /\ next' = ZeroPair
    /\ err' = Nil
    /\ cert' = NoCert

\* Run goes on, returning nothing and cancelling nothing.
GoesOn == UNCHANGED <<ret, retAt, runDone, fdone>>

\* StatCert, except that a failed stat is retried at the next tick.
StatCertRetry ==
    /\ ~panicked /\ pc = "check"
    /\ IF certFile.present
         THEN /\ next' = [cert |-> certFile.mtime, key |-> 0]
              /\ pc' = "stat_key"
         ELSE /\ next' = ZeroPair
              /\ pc' = "select"
    /\ GoesOn
    /\ UNCHANGED <<prodVars, envVars, outerDone, last, errCh, fctx, err, cert, ninv,
                   chans, g, panicked, preempted, hist>>

\* check: os.Stat of fullchain.pem.
StatCert ==
    /\ ~panicked /\ pc = "check"
    /\ IF certFile.present
         THEN /\ next' = [cert |-> certFile.mtime, key |-> 0]
              /\ pc' = "stat_key"
              /\ GoesOn
              /\ UNCHANGED <<err, cert>>
         ELSE Return("probeErr", "check")
    /\ UNCHANGED <<prodVars, envVars, outerDone, last, errCh, fctx, ninv, chans, g,
                   panicked, preempted, hist>>

\* AfterCheck, except that every probe counts as a change.
AfterCheckAlways(nx) ==
    IF errCh # 0 THEN "fcancel"
    ELSE "load_cert"

\* Where Run goes once check has returned next: "if !next.equal(last)", then
\* "if errCh != nil".
AfterCheck(nx) ==
    IF equal(nx, last) THEN "select"
    ELSE IF errCh # 0 THEN "fcancel"
    ELSE "load_cert"

\* check: os.Stat of privkey.pem, then the comparison with last.
StatKey ==
    /\ ~panicked /\ pc = "stat_key"
    /\ IF keyFile.present
         THEN /\ next' = [next EXCEPT !.key = keyFile.mtime]
              /\ pc' = AfterCheck(next')
              /\ GoesOn
              /\ UNCHANGED <<err, cert>>
         ELSE Return("probeErr", "check")
    /\ UNCHANGED <<prodVars, envVars, outerDone, last, errCh, fctx, ninv, chans, g,
                   panicked, preempted, hist>>

\* Fcancel, except that it calls cancel(), the cancel function of Run's own
\* context, in place of fcancel().
FcancelOuter ==
    /\ ~panicked /\ pc = "fcancel"
    /\ fdone' = CancelAll
    /\ runDone' = TRUE
    /\ preempted' = preempted \cup {fctx}
    /\ pc' = "drain"
    /\ UNCHANGED <<prodVars, envVars, outerDone, last, next, errCh, fctx, err, cert, ret,
                   retAt, ninv, chans, g, panicked, hist>>

\* fcancel() of the current invocation.
Fcancel ==
    /\ ~panicked /\ pc = "fcancel"
    /\ fdone' = [fdone EXCEPT ![fctx] = TRUE]
    /\ preempted' = preempted \cup {fctx}
    /\ pc' = "drain"
    /\ UNCHANGED <<prodVars, envVars, outerDone, last, next, errCh, fctx, err, cert, ret,
                   retAt, runDone, ninv, chans, g, panicked, hist>>

\* A receive from channel c can proceed.
Ready(c) == c # 0 /\ (chans[c].buf # <<>> \/ chans[c].closed)

\* What a receive from channel c yields: the buffered value and its sender,
\* or the zero value of a closed and empty channel.
Recv(c) ==
    IF chans[c].buf # <<>> THEN Head(chans[c].buf)
    ELSE [val |-> Nil, by |-> 0]

AfterRecv(c) == [chans EXCEPT ![c].buf = IF @ = <<>> THEN <<>> ELSE Tail(@)]

Received(c) == IF Recv(c).by = 0 THEN recvd ELSE recvd \cup {Recv(c).by}

\* err := <-errCh
Drain ==
    /\ ~panicked /\ pc = "drain"
    /\ Ready(errCh)
    /\ err' = Recv(errCh).val
    /\ chans' = AfterRecv(errCh)
    /\ recvd' = Received(errCh)
    /\ got' = Recv(errCh).by
    /\ pc' = "inspect"
    /\ UNCHANGED <<prodVars, envVars, outerDone, last, next, errCh, fctx, cert, ret,
                   retAt, runDone, fdone, ninv, g, panicked, preempted,
                   shutInDrain>>

\* Terminal, except that context.Canceled is always taken for the
\* acknowledgement (ctx.Err() is not consulted).
TerminalNoCtx(e, done) == e # Nil /\ e # Canceled

\* Terminal, except that the test of ctx.Err() is inverted.
TerminalInverted(e, done) == e # Nil /\ (e # Canceled \/ ~done)

\* The drained result ends Run:
\* err != nil && (!errors.Is(err, context.Canceled) || ctx.Err() != nil)
Terminal(e, done) == e # Nil /\ (e # Canceled \/ done)

\* The inspection of the drained result.  (err is local to the drain branch:
\* the model clears it when the branch ends.)
Inspect ==
    /\ ~panicked /\ pc = "inspect"
    /\ IF Terminal(err, runDone)
         THEN Return(err, "drain")
         ELSE /\ pc' = "load_cert"
              /\ err' = Nil
              /\ GoesOn
              /\ UNCHANGED <<next, cert>>
    /\ UNCHANGED <<prodVars, envVars, outerDone, last, errCh, fctx, ninv, chans, g,
                   panicked, preempted, hist>>

\* tls.LoadX509KeyPair: read of fullchain.pem.
LoadCert ==
    /\ ~panicked /\ pc = "load_cert"
    /\ IF certFile.present
         THEN /\ cert' = [certgen |-> certFile.gen, keygen |-> 0,
                          certtime |-> certFile.mtime, keytime |-> 0,
                          seen |-> recvd]
              /\ pc' = "load_key"
              /\ GoesOn
              /\ UNCHANGED <<next, err>>
         ELSE Return("loadErr", "load")
    /\ UNCHANGED <<prodVars, envVars, outerDone, last, errCh, fctx, ninv, chans, g,
                   panicked, preempted, hist>>

\* tls.LoadX509KeyPair: read of privkey.pem, then tls.X509KeyPair.
LoadKey ==
    /\ ~panicked /\ pc = "load_key"
    /\ IF keyFile.present /\ X509KeyPairOK(cert.certgen, keyFile.gen)
         THEN /\ cert' = [cert EXCEPT !.keygen = keyFile.gen,
                                      !.keytime = keyFile.mtime]
              /\ pc' = "start"
              /\ GoesOn
              /\ UNCHANGED <<next, err>>
         ELSE Return("loadErr", "load")
    /\ UNCHANGED <<prodVars, envVars, outerDone, last, errCh, fctx, ninv, chans, g,
                   panicked, preempted, hist>>

\* Start, except that last is probed anew after the load ("last, _ =
\* check(dir)") in place of "last = next".
StartReprobe ==
    /\ ~panicked /\ pc = "start"
    /\ ninv < MaxInv
    /\ ninv' = ninv + 1
    /\ fctx' = ninv + 1
    /\ fdone' = [fdone EXCEPT ![ninv + 1] = runDone]
    /\ errCh' = ninv + 1
    /\ g' = [g EXCEPT ![ninv + 1] = [NoGoroutine EXCEPT !.st = "spawned",
                                                        !.ctx = ninv + 1,
                                                        !.ch = ninv + 1,
                                                        !.cert = cert]]
    /\ last' = [cert |-> certFile.mtime, key |-> keyFile.mtime]
    /\ cert' = NoCert
    /\ pc' = "select"
    /\ UNCHANGED <<prodVars, envVars, outerDone, next, err, ret, retAt, runDone,
                   chans, panicked, preempted, hist>>

\* fctx, fcancel = context.WithCancel(ctx); errCh = make(chan error, 1);
\* go func() {...}(); last = next.  (cert is local to the branch: the model
\* clears it when the branch ends.)
Start ==
    /\ ~panicked /\ pc = "start"
    /\ ninv < MaxInv
    /\ ninv' = ninv + 1
    /\ fctx' = ninv + 1
    /\ fdone' = [fdone EXCEPT ![ninv + 1] = runDone]
    /\ errCh' = ninv + 1
    /\ g' = [g EXCEPT ![ninv + 1] = [NoGoroutine EXCEPT !.st = "spawned",
                                                        !.ctx = ninv + 1,
                                                        !.ch = ninv + 1,
                                                        !.cert = cert]]
    /\ last' = next
    /\ cert' = NoCert
    /\ pc' = "select"
    /\ UNCHANGED <<prodVars, envVars, outerDone, next, err, ret, retAt, runDone,
                   chans, panicked, preempted, hist>>

\* SelectDone, except that it returns nil in place of ctx.Err().
SelectDoneNil ==
    /\ ~panicked /\ pc = "select"
    /\ runDone
    /\ Return(Nil, "ctxDone")
    /\ UNCHANGED <<prodVars, envVars, outerDone, last, errCh, fctx, ninv, chans, g,
                   panicked, preempted, hist>>

\* select: case <-ctx.Done()
SelectDone ==
    /\ ~panicked /\ pc = "select"
    /\ runDone
    /\ Return(Canceled, "ctxDone")
    /\ UNCHANGED <<prodVars, envVars, outerDone, last, errCh, fctx, ninv, chans, g,
                   panicked, preempted, hist>>

\* select: case <-ticker.C
SelectTick ==
    /\ ~panicked /\ pc = "select"
    /\ pc' = "check"
    /\ GoesOn
    /\ UNCHANGED <<prodVars, envVars, outerDone, last, next, errCh, fctx, err, cert,
                   ninv, chans, g, panicked, preempted, hist>>

\* select: case err := <-errCh
SelectErr ==
    /\ ~panicked /\ pc = "select"
    /\ Ready(errCh)
    /\ Return(Recv(errCh).val, "errCh")
    /\ chans' = AfterRecv(errCh)
    /\ recvd' = Received(errCh)
    /\ got' = Recv(errCh).by
    /\ UNCHANGED <<prodVars, envVars, outerDone, last, errCh, fctx, ninv, g, panicked,
                   preempted, shutInDrain>>

----------------------------------------------------------------------------
\* The goroutine "errCh <- f(fctx, cert); close(errCh)".

\* A read of a variable of Run by goroutine n that had `own` for it.
RacyRead(own, current) == {own, current}

\* The goroutine runs and calls f(fctx, cert).
Begin(n) ==
    /\ ~panicked /\ g[n].st = "spawned"
    /\ \E c \in RacyRead(g[n].ctx, fctx) :
          g' = [g EXCEPT ![n].st = "running", ![n].ctx = c]
    /\ UNCHANGED <<prodVars, envVars, outerDone, runVars, runDone, fdone, ninv, chans,
                   panicked, preempted, hist>>

\* The values f may return when its context is (not) cancelled.
Returns(cancelled) == Results

\* History: "natural" when Run has not called the cancel function of context c,
\* "preempt" when it has and the outer context is live, "both" otherwise.
Why(c) ==
    IF c \notin preempted THEN "natural"
    ELSE IF outerDone THEN "both"
    ELSE "preempt"

\* f returns.
FReturn(n) ==
    /\ ~panicked /\ g[n].st = "running"
    /\ \E v \in Returns(fdone[g[n].ctx]) :
          g' = [g EXCEPT ![n].st = "returned", ![n].res = v,
                         ![n].why = Why(g[n].ctx)]
    /\ UNCHANGED <<prodVars, envVars, outerDone, runVars, runDone, fdone, ninv, chans,
                   panicked, preempted, hist>>

\* errCh <- (f's result)
Send(n) ==
    /\ ~panicked /\ g[n].st = "returned"
    /\ \E c \in RacyRead(g[n].ch, errCh) :
          IF chans[c].closed
            THEN /\ panicked' = TRUE
                 /\ UNCHANGED <<chans, g>>
            ELSE /\ Len(chans[c].buf) < 1
                 /\ chans' = [chans EXCEPT ![c].buf =
                                  Append(@, [val |-> g[n].res, by |-> n])]
                 /\ g' = [g EXCEPT ![n].st = "sent", ![n].ch = c]
                 /\ UNCHANGED panicked
    /\ UNCHANGED <<prodVars, envVars, outerDone, runVars, runDone, fdone, ninv,
                   preempted, hist>>

\* close(errCh)
Close(n) ==
    /\ ~panicked /\ g[n].st = "sent"
    /\ \E c \in RacyRead(g[n].ch, errCh) :
          IF chans[c].closed
            THEN /\ panicked' = TRUE
                 /\ UNCHANGED <<chans, g>>
            ELSE /\ chans' = [chans EXCEPT ![c].closed = TRUE]
                 /\ g' = [g EXCEPT ![n].st = "exited"]
                 /\ UNCHANGED panicked
    /\ UNCHANGED <<prodVars, envVars, outerDone, runVars, runDone, fdone, ninv,
                   preempted, hist>>

----------------------------------------------------------------------------
Next ==
    \/ WriteCert
    \/ WriteKey
    \/ RemoveFile
    \/ OuterCancel
    \/ StatCert
    \/ StatKey
    \/ Fcancel
    \/ Drain
    \/ Inspect
    \/ LoadCert
    \/ LoadKey
    \/ Start
    \/ SelectDone
    \/ SelectTick
    \/ SelectErr
    \/ \E n \in Invs : Begin(n)
    \/ \E n \in Invs : FReturn(n)
    \/ \E n \in Invs : Send(n)
    \/ \E n \in Invs : Close(n)

Spec == Init /\ [][Next]_vars

----------------------------------------------------------------------------
\* Run under the hypotheses of "no lost renewals": the directory holds a pair
\* and is renewed a finite number of times, each renewal replacing both files
\* with later modification times and never landing between the two reads of a
\* load (no probe and no load fails); the outer context is never cancelled; f
\* returns only context.Canceled, and only once its context is cancelled.

LiveInit == Init /\ certFile.present

Renew ==
    /\ ~panicked /\ pc \notin {"done", "load_key"}
    /\ nops < MaxOps /\ certFile.mtime < MaxTime /\ keyFile.mtime < MaxTime
    /\ certFile' = File(certFile.mtime + 1, gen + 1)
    /\ keyFile' = File(keyFile.mtime + 1, gen + 1)
    /\ gen' = gen + 1
    /\ nops' = nops + 1
    /\ UNCHANGED <<prodVars, envpc, outerDone, runVars, runDone, fdone, ninv, chans, g,
                   panicked, preempted, hist>>

\* f returns context.Canceled, its context being cancelled.
FReturnCanceled(n) ==
    /\ ~panicked /\ g[n].st = "running"
    /\ fdone[g[n].ctx]
    /\ g' = [g EXCEPT ![n].st = "returned", ![n].res = Canceled,
                      ![n].why = Why(g[n].ctx)]
    /\ UNCHANGED <<prodVars, envVars, outerDone, runVars, runDone, fdone, ninv, chans,
                   panicked, preempted, hist>>

\* The steps of Run (its context is never cancelled here, so the select has
\* no ctx.Done case to take).
RunStep ==
    \/ StatCert
    \/ StatKey
    \/ Fcancel
    \/ Drain
    \/ Inspect
    \/ LoadCert
    \/ LoadKey
    \/ Start
    \/ SelectTick
    \/ SelectErr

GoStep(n) ==
    \/ Begin(n)
    \/ FReturnCanceled(n)
    \/ Send(n)
    \/ Close(n)

LiveNext ==
    \/ Renew
    \/ RunStep
    \/ \E n \in Invs : GoStep(n)

\* Run keeps running, the ticker keeps ticking, and every goroutine keeps
\* running: f honours the cancellation of its context.
LiveSpec ==
    /\ LiveInit /\ [][LiveNext]_vars
    /\ WF_vars(RunStep)
    /\ \A n \in Invs : WF_vars(GoStep(n))

----------------------------------------------------------------------------
\* Package certs: FromDir and the goroutine of Times it starts.  The caller
\* holds the channel FromDir returned and receives from it when it likes.

CertsFromDirInit ==
    /\ \/ Dir(Absent, Absent)
       \/ Dir(File(1, 0), File(1, 0))
    /\ Entry
    /\ tm = [NoTimes EXCEPT !.pc = "stat_cert"]
    /\ fd = [NoFromDir EXCEPT !.pc = "range"]
    /\ fc = NoFromCommand
    /\ rx = <<>>

\* A return of the goroutine of Times after "*errptr = e", with its deferred
\* close(ch).
CertsTimesStop(e) ==
    tm' = [tm EXCEPT !.pc = "done", !.errptr = e, !.closed = TRUE]

\* Times: os.Stat(certfile); newLatest := info.ModTime()
CertsTimesStatCert ==
    /\ tm.pc = "stat_cert"
    /\ IF certFile.present
         THEN tm' = [tm EXCEPT !.pc = "stat_key",
                               !.newLatest = certFile.mtime,
                               !.cur = certFile.mtime]
         ELSE CertsTimesStop("statErr")
    /\ UNCHANGED <<fd, fc, rx, envVars, outerDone, runState>>

\* if newLatest.Before(info.ModTime()) { newLatest = info.ModTime() }
Later(a, b) == IF a < b THEN b ELSE a

\* Times: os.Stat(keyfile), the newer of the two times, then
\* "if latest.Before(newLatest) { latest = newLatest; select ... }".
CertsTimesStatKey ==
    /\ tm.pc = "stat_key"
    /\ IF keyFile.present
         THEN tm' = [tm EXCEPT
                       !.newLatest = Later(@, keyFile.mtime),
                       !.latest = Later(@, Later(tm.newLatest, keyFile.mtime)),
                       !.pc = IF tm.latest < Later(tm.newLatest, keyFile.mtime)
                                THEN "send" ELSE "timer",
                       !.prev = [cert |-> tm.cur, key |-> keyFile.mtime]]
         ELSE CertsTimesStop("statErr")
    /\ UNCHANGED <<fd, fc, rx, envVars, outerDone, runState>>

\* Times, first select: case <-ctx.Done()
CertsTimesSendDone ==
    /\ tm.pc = "send" /\ outerDone
    /\ CertsTimesStop(Canceled)
    /\ UNCHANGED <<fd, fc, rx, envVars, outerDone, runState>>

\* Times, first select: case ch <- latest.  ch has no buffer: the send happens
\* when FromDir's goroutine is at "for range times", which receives it.
CertsTimesSend ==
    /\ tm.pc = "send" /\ fd.pc = "range"
    /\ tm' = [tm EXCEPT !.pc = "timer"]
    /\ fd' = [fd EXCEPT !.pc = "read_cert"]
    /\ UNCHANGED <<fc, rx, envVars, outerDone, runState>>

\* Times, second select: case <-ctx.Done()
CertsTimesTimerDone ==
    /\ tm.pc = "timer" /\ outerDone
    /\ CertsTimesStop(Canceled)
    /\ UNCHANGED <<fd, fc, rx, envVars, outerDone, runState>>

\* Times, second select: case <-timer.C
CertsTimesTimer ==
    /\ tm.pc = "timer"
    /\ tm' = [tm EXCEPT !.pc = "stat_cert"]
    /\ UNCHANGED <<fd, fc, rx, envVars, outerDone, runState>>

\* A return of FromDir's goroutine after "*errptr = e", with its deferred
\* close(ch).
CertsFromDirStop(e) ==
    fd' = [fd EXCEPT !.pc = "done", !.errptr = e, !.closed = TRUE,
                     !.certgen = 0, !.keygen = 0]

\* FromDir: "for range times" ends, times being closed; *errptr = *timesErrptr.
CertsFromDirRangeEnd ==
    /\ fd.pc = "range" /\ tm.closed
    /\ CertsFromDirStop(tm.errptr)
    /\ UNCHANGED <<tm, fc, rx, envVars, outerDone, runState>>

\* FromDir: os.ReadFile(certfile)
CertsFromDirReadCert ==
    /\ fd.pc = "read_cert"
    /\ IF certFile.present
         THEN fd' = [fd EXCEPT !.pc = "read_key", !.certgen = certFile.gen]
         ELSE CertsFromDirStop("readErr")
    /\ UNCHANGED <<tm, fc, rx, envVars, outerDone, runState>>

\* FromDir: os.ReadFile(keyfile), then tls.X509KeyPair.
CertsFromDirReadKey ==
    /\ fd.pc = "read_key"
    /\ IF ~keyFile.present THEN CertsFromDirStop("readErr")
       ELSE IF ~X509KeyPairOK(fd.certgen, keyFile.gen)
         THEN CertsFromDirStop("parseErr")
       ELSE fd' = [fd EXCEPT !.pc = "send", !.keygen = keyFile.gen]
    /\ UNCHANGED <<tm, fc, rx, envVars, outerDone, runState>>

\* FromDir, select: case <-ctx.Done(): *errptr is set and the loop goes on.
CertsFromDirSendDone ==
    /\ fd.pc = "send" /\ outerDone
    /\ fd' = [fd EXCEPT !.pc = "range", !.errptr = "wrapCanceled",
                        !.certgen = 0, !.keygen = 0]
    /\ UNCHANGED <<tm, fc, rx, envVars, outerDone, runState>>

\* FromDir, select: case ch <- cert, the caller receiving.
CertsFromDirSend ==
    /\ fd.pc = "send"
    /\ rx' = Append(rx, fd.certgen)
    /\ fd' = [fd EXCEPT !.pc = "range", !.certgen = 0, !.keygen = 0]
    /\ UNCHANGED <<tm, fc, envVars, outerDone, runState>>

CertsFromDirNext ==
    \/ WriteCert
    \/ WriteKey
    \/ RemoveFile
    \/ OuterCancel
    \/ CertsTimesStatCert
    \/ CertsTimesStatKey
    \/ CertsTimesSendDone
    \/ CertsTimesSend
    \/ CertsTimesTimerDone
    \/ CertsTimesTimer
    \/ CertsFromDirRangeEnd
    \/ CertsFromDirReadCert
    \/ CertsFromDirReadKey
    \/ CertsFromDirSendDone
    \/ CertsFromDirSend

CertsFromDirSpec == CertsFromDirInit /\ [][CertsFromDirNext]_vars

----------------------------------------------------------------------------
\* Package certdir: FromDir, whose goroutine polls with Times(dir) itself.  The
\* caller holds the channel and receives from it when it likes.

CertdirFromDirInit ==
    /\ \/ Dir(Absent, Absent)
       \/ Dir(File(1, 0), File(1, 0))
    /\ Entry
    /\ tm = NoTimes
    /\ fd = [NoFromDir EXCEPT !.pc = "stat_cert"]
    /\ fc = NoFromCommand
    /\ rx = <<>>

\* A return of the goroutine after "*errptr = e", with its deferred close(ch).
CertdirFromDirStop(e) ==
    fd' = [fd EXCEPT !.pc = "done", !.errptr = e, !.closed = TRUE,
                     !.certgen = 0, !.keygen = 0, !.new = ZeroPair]

\* Times(dir): os.Stat(certfile)
CertdirTimesStatCert ==
    /\ fd.pc = "stat_cert"
    /\ IF certFile.present
         THEN fd' = [fd EXCEPT !.pc = "stat_key",
                               !.new = [cert |-> certFile.mtime, key |-> 0]]
         ELSE CertdirFromDirStop("statErr")
    /\ UNCHANGED <<tm, fc, rx, envVars, outerDone, runState>>

\* Times(dir): os.Stat(keyfile); then FromDir's
\* "if !lastCertTime.Equal(newCertTime) || !lastKeyTime.Equal(newKeyTime)".
CertdirTimesStatKey ==
    /\ fd.pc = "stat_key"
    /\ IF keyFile.present
         THEN fd' = [fd EXCEPT
                       !.new = [@ EXCEPT !.key = keyFile.mtime],
                       !.pc = IF equal(fd.last, [cert |-> fd.new.cert,
                                                 key |-> keyFile.mtime])
                                THEN "timer" ELSE "read_cert"]
         ELSE CertdirFromDirStop("statErr")
    /\ UNCHANGED <<tm, fc, rx, envVars, outerDone, runState>>

\* FromDir: os.ReadFile(certfile)
CertdirFromDirReadCert ==
    /\ fd.pc = "read_cert"
    /\ IF certFile.present
         THEN fd' = [fd EXCEPT !.pc = "read_key", !.certgen = certFile.gen]
         ELSE CertdirFromDirStop("readErr")
    /\ UNCHANGED <<tm, fc, rx, envVars, outerDone, runState>>

\* FromDir: os.ReadFile(keyfile), then tls.X509KeyPair.
CertdirFromDirReadKey ==
    /\ fd.pc = "read_key"
    /\ IF ~keyFile.present THEN CertdirFromDirStop("readErr")
       ELSE IF ~X509KeyPairOK(fd.certgen, keyFile.gen)
         THEN CertdirFromDirStop("parseErr")
       ELSE fd' = [fd EXCEPT !.pc = "send", !.keygen = keyFile.gen]
    /\ UNCHANGED <<tm, fc, rx, envVars, outerDone, runState>>

\* FromDir, first select: case <-ctx.Done(): *errptr is set and the goroutine
\* goes on to "lastCertTime, lastKeyTime = newCertTime, newKeyTime".
CertdirFromDirSendDone ==
    /\ fd.pc = "send" /\ outerDone
    /\ fd' = [fd EXCEPT !.pc = "timer", !.errptr = "wrapCanceled",
                        !.last = fd.new, !.new = ZeroPair,
                        !.certgen = 0, !.keygen = 0]
    /\ UNCHANGED <<tm, fc, rx, envVars, outerDone, runState>>

\* FromDir, first select: case ch <- cert, the caller receiving.
CertdirFromDirSend ==
    /\ fd.pc = "send"
    /\ rx' = Append(rx, fd.certgen)
    /\ fd' = [fd EXCEPT !.pc = "timer", !.last = fd.new, !.new = ZeroPair,
                        !.certgen = 0, !.keygen = 0]
    /\ UNCHANGED <<tm, fc, envVars, outerDone, runState>>

\* FromDir, second select: case <-ctx.Done(): *errptr is set and the loop goes
\* on.
CertdirFromDirTimerDone ==
    /\ fd.pc = "timer" /\ outerDone
    /\ fd' = [fd EXCEPT !.pc = "stat_cert", !.errptr = Canceled,
                        !.new = ZeroPair]
    /\ UNCHANGED <<tm, fc, rx, envVars, outerDone, runState>>

\* FromDir, second select: case <-t.C
CertdirFromDirTimer ==
    /\ fd.pc = "timer"
    /\ fd' = [fd EXCEPT !.pc = "stat_cert", !.new = ZeroPair]
    /\ UNCHANGED <<tm, fc, rx, envVars, outerDone, runState>>

\* The steps of FromDir's goroutine.
CertdirFromDirStep ==
    \/ CertdirTimesStatCert
    \/ CertdirTimesStatKey
    \/ CertdirFromDirReadCert
    \/ CertdirFromDirReadKey
    \/ CertdirFromDirSendDone
    \/ CertdirFromDirSend
    \/ CertdirFromDirTimerDone
    \/ CertdirFromDirTimer

CertdirFromDirNext ==
    \/ WriteCert
    \/ WriteKey
    \/ RemoveFile
    \/ OuterCancel
    \/ CertdirFromDirStep

\* The goroutine keeps running (the timer keeps firing, the caller keeps
\* receiving); the directory and the caller's cancel are under no obligation.
CertdirFromDirSpec ==
    /\ CertdirFromDirInit /\ [][CertdirFromDirNext]_vars
    /\ WF_vars(CertdirFromDirStep)

----------------------------------------------------------------------------
\* FromCommand (packages certs and certdir): the subprocess has been started;
\* it writes a sequence of records to its standard output and exits.

\* A record of the subprocess's output: a JSON X509KeyPair holding a valid
\* pair, one whose blocks tls.X509KeyPair rejects, or text that is not JSON.
Kinds == {"good", "badpem", "badjson"}

Outputs == UNION {[1..n -> Kinds] : n \in 0..MaxRecords}

FromCommandInit ==
    /\ Dir(Absent, Absent)
    /\ Entry
    /\ tm = NoTimes
    /\ fd = NoFromDir
    /\ rx = <<>>
    /\ \E o \in Outputs, e \in {Nil, "exitErr"} :
          fc = [NoFromCommand EXCEPT !.pc = "decode", !.out = o, !.exit = e]

\* exec.CommandContext kills the subprocess once ctx is cancelled: its output
\* may end early and cmd.Wait may fail whatever the exit would have been.
Killed == IF outerDone THEN {TRUE, FALSE} ELSE {FALSE}

\* An error value as the set of the errors it holds (nil: none).
ErrorOf(e) == IF e = Nil THEN {} ELSE {e}

\* errors.Wrapf(err, ...): nil for a nil err, else an error holding err.
Wrapf(e) == ErrorOf(e)

\* errors.Join(a, b): nil values are dropped; nil if nothing is left.
Join(a, b) == a \cup b

\* certs.FromCommand: a return of the goroutine after "*errptr = e", with its
\* deferred close(ch).
CertsFromCommandStop(e) ==
    fc' = [fc EXCEPT !.pc = "done", !.errptr = e, !.closed = TRUE,
                     !.out = <<>>, !.pair = "none"]

\* certs.FromCommand: dec.Decode(&pair)
CertsFromCommandDecode ==
    /\ fc.pc = "decode"
    /\ \E eof \in Killed :
          IF eof \/ fc.out = <<>> \/ Head(fc.out) = "badjson"
            THEN CertsFromCommandStop("decodeErr")
            ELSE fc' = [fc EXCEPT !.pc = "parse", !.pair = Head(fc.out),
                                  !.out = Tail(fc.out)]
    /\ UNCHANGED <<tm, fd, rx, envVars, outerDone, runState>>

\* certs.FromCommand: tls.X509KeyPair(pair.CertPEMBlock, pair.KeyPEMBlock)
CertsFromCommandParse ==
    /\ fc.pc = "parse"
    /\ IF fc.pair = "good"
         THEN fc' = [fc EXCEPT !.pc = "send"]
         ELSE CertsFromCommandStop("parseErr")
    /\ UNCHANGED <<tm, fd, rx, envVars, outerDone, runState>>

\* certs.FromCommand, select: case <-ctx.Done()
CertsFromCommandSendDone ==
    /\ fc.pc = "send" /\ outerDone
    /\ CertsFromCommandStop(Canceled)
    /\ UNCHANGED <<tm, fd, rx, envVars, outerDone, runState>>

\* certs.FromCommand, select: case ch <- cert, the caller receiving.
CertsFromCommandSend ==
    /\ fc.pc = "send"
    /\ rx' = Append(rx, fc.pair)
    /\ fc' = [fc EXCEPT !.pc = "decode", !.pair = "none"]
    /\ UNCHANGED <<tm, fd, envVars, outerDone, runState>>

\* CertsFromCommandWait, except that *errptr, when set, is returned alone
\* ("if *errptr != nil { return *errptr }; return err").
WaitErrptrFirst ==
    /\ fc.closed /\ ~fc.waited
    /\ \E killed \in Killed :
          LET e == IF killed THEN "exitErr" ELSE fc.exit
          IN  fc' = [fc EXCEPT !.waited = TRUE, !.waitErr = e,
                               !.res = IF fc.errptr # Nil
                                         THEN ErrorOf(fc.errptr)
                                         ELSE Wrapf(e)]
    /\ UNCHANGED <<tm, fd, rx, envVars, outerDone, runState>>

\* certs.FromCommand: the caller calls wait, the channel being closed:
\* err := cmd.Wait(); err = errors.Wrapf(err, ...);
\* if *errptr != nil { err = errors.Join(err, *errptr) }; return err
CertsFromCommandWait ==
    /\ fc.closed /\ ~fc.waited
    /\ \E killed \in Killed :
          LET e == IF killed THEN "exitErr" ELSE fc.exit
          IN  fc' = [fc EXCEPT !.waited = TRUE, !.waitErr = e,
                               !.res = IF fc.errptr # Nil
                                         THEN Join(Wrapf(e), ErrorOf(fc.errptr))
                                         ELSE Wrapf(e)]
    /\ UNCHANGED <<tm, fd, rx, envVars, outerDone, runState>>

CertsFromCommandNext ==
    \/ OuterCancel
    \/ CertsFromCommandDecode
    \/ CertsFromCommandParse
    \/ CertsFromCommandSendDone
    \/ CertsFromCommandSend
    \/ CertsFromCommandWait

CertsFromCommandSpec == FromCommandInit /\ [][CertsFromCommandNext]_vars

\* certdir.FromCommand: a return of the goroutine after "*errptr = e" (the
\* goroutine defers nothing).
CertdirFromCommandStop(e) ==
    fc' = [fc EXCEPT !.pc = "done", !.errptr = e, !.out = <<>>,
                     !.pair = "none"]

\* certdir.FromCommand: dec.Decode(&pair)
CertdirFromCommandDecode ==
    /\ fc.pc = "decode"
    /\ \E eof \in Killed :
          IF eof \/ fc.out = <<>> \/ Head(fc.out) = "badjson"
            THEN CertdirFromCommandStop("decodeErr")
            ELSE fc' = [fc EXCEPT !.pc = "parse", !.pair = Head(fc.out),
                                  !.out = Tail(fc.out)]
    /\ UNCHANGED <<tm, fd, rx, envVars, outerDone, runState>>

\* certdir.FromCommand: tls.X509KeyPair(pair.CertPEMBlock, pair.KeyPEMBlock)
CertdirFromCommandParse ==
    /\ fc.pc = "parse"
    /\ IF fc.pair = "good"
         THEN fc' = [fc EXCEPT !.pc = "send"]
         ELSE CertdirFromCommandStop("parseErr")
    /\ UNCHANGED <<tm, fd, rx, envVars, outerDone, runState>>

\* certdir.FromCommand, select: case <-ctx.Done()
CertdirFromCommandSendDone ==
    /\ fc.pc = "send" /\ outerDone
    /\ CertdirFromCommandStop(Canceled)
    /\ UNCHANGED <<tm, fd, rx, envVars, outerDone, runState>>

\* certdir.FromCommand, select: case ch <- cert, the caller receiving.
CertdirFromCommandSend ==
    /\ fc.pc = "send"
    /\ rx' = Append(rx, fc.pair)
    /\ fc' = [fc EXCEPT !.pc = "decode", !.pair = "none"]
    /\ UNCHANGED <<tm, fd, envVars, outerDone, runState>>

CertdirFromCommandNext ==
    \/ OuterCancel
    \/ CertdirFromCommandDecode
    \/ CertdirFromCommandParse
    \/ CertdirFromCommandSendDone
    \/ CertdirFromCommandSend

CertdirFromCommandSpec == FromCommandInit /\ [][CertdirFromCommandNext]_vars

----------------------------------------------------------------------------
\* Claims about Run.

\* Invocations of f that have been started and have not returned.
Live == {n \in Invs : g[n].st \in {"spawned", "running"}}

\* C1: single-flight: at most one invocation of f is started and not yet
\* returned, and invocation n+1 is started only after Run has received the
\* result of invocation n from its completion channel.
C1_SingleFlight ==
    /\ Cardinality(Live) <= 1
    /\ \A n \in Invs : (n > 1 /\ g[n].st # "none") => (n - 1) \in recvd

\* C2: natural completion is terminal: once Run has received the result of an
\* invocation that returned before Run called its cancel function, Run returns
\* exactly that result and goes on to no load and no start (the only position
\* before the return is the inspection of a drained result).
C2_NaturalCompletionTerminal ==
    \A n \in Invs :
        (n \in recvd /\ g[n].why = "natural") =>
            \/ pc = "inspect" /\ got = n /\ err = g[n].res
            \/ pc = "done" /\ got = n /\ ret = g[n].res
                           /\ retAt \in {"drain", "errCh"}

\* C3: preemption transparency: Run does not leave through the drain branch
\* with a context.Canceled result while the outer context is live, and Run
\* never returns the context.Canceled of an invocation that returned it after
\* Run's own preemption cancel, the outer context being live throughout.
C3_PreemptionTransparency ==
    /\ (pc = "done" /\ retAt = "drain" /\ ret = Canceled) => outerDone
    /\ (pc = "done" /\ retAt \in {"drain", "errCh"} /\ ret = Canceled
            /\ got # 0 /\ g[got].why = "preempt") => outerDone

\* The drained result is the preemption acknowledgement: context.Canceled
\* received while Run's own context is live.
PreemptionAck == err = Canceled /\ ~runDone

\* Run inspects the drained result.
Inspects == pc = "inspect" /\ pc' # pc

\* Run has returned: it takes no further step.
Terminated == pc = "done" => (pc' = "done" /\ ret' = ret /\ ninv' = ninv
                                /\ cert' = cert /\ last' = last)

\* C4 as claimed: every drained result other than the preemption
\* acknowledgement (a return without error included) makes Run return it,
\* with no load and no start.
C4_DrainTerminalOriginal ==
    [][(Inspects /\ ~PreemptionAck) =>
          (pc' = "done" /\ ret' = err /\ retAt' = "drain" /\ ninv' = ninv)]_vars

\* C4 as amended: a drained result that is an error other than the preemption
\* acknowledgement makes Run return it unchanged, with no load and no start
\* then or later; a drained nil, like the acknowledgement, makes Run go on to
\* load the certificate.
C4_DrainTerminal ==
    [][/\ (Inspects /\ err # Nil /\ ~PreemptionAck) =>
             (pc' = "done" /\ ret' = err /\ retAt' = "drain" /\ ninv' = ninv
                /\ cert' = NoCert)
       /\ (Inspects /\ (err = Nil \/ PreemptionAck)) =>
             (pc' = "load_cert" /\ ret' = ret /\ ninv' = ninv)
       /\ Terminated]_vars

\* C4 witness: Run has left through the drain branch with an error of f that is
\* not context.Canceled.
C4_Witness ==
    pc = "done" /\ retAt = "drain" /\ ret = Boom /\ got # 0 /\ ~outerDone

\* C5 as claimed: once the outer context has been cancelled between fcancel
\* and the start of the replacement, no invocation is started any more and
\* Run returns the cancellation.
C5_ShutdownInDrainOriginal ==
    [][shutInDrain' => (ninv' = ninv /\ (pc' = "done" => ret' = Canceled))]_vars

\* C5 as amended: when the outer context is cancelled by the time Run inspects
\* the drained result and that result is an error, Run returns that error (the
\* cancellation error when the old invocation returned context.Canceled) and
\* starts no invocation then or later.
C5_ShutdownInDrain ==
    [][/\ (Inspects /\ outerDone /\ err # Nil) =>
             (pc' = "done" /\ ret' = err /\ retAt' = "drain" /\ ninv' = ninv)
       /\ (pc = "done" => ninv' = ninv)]_vars

\* C5 witness: the outer context was cancelled during the drain and Run has
\* returned the old invocation's context.Canceled from the drain branch.
C5_Witness ==
    /\ shutInDrain /\ pc = "done" /\ retAt = "drain" /\ ret = Canceled
    /\ got # 0 /\ g[got].st \in {"sent", "exited"}

\* Run leaves its select.
LeavesSelect == pc = "select" /\ pc' # "select"

\* C6 as claimed: with the outer context cancelled, Run leaves its select by
\* returning the context's error, also when a completion result is available.
C6_ShutdownReportingOriginal ==
    [][(LeavesSelect /\ outerDone) =>
          (pc' = "done" /\ retAt' = "ctxDone" /\ ret' = Canceled)]_vars

\* C6 as amended: with the outer context cancelled, Run leaves its select
\* through any case that is ready: it returns the context's cancellation error,
\* or it returns the completion result that is available, or it takes a tick;
\* no case has priority.
C6_ShutdownReporting ==
    [][(LeavesSelect /\ outerDone) =>
          \/ pc' = "done" /\ retAt' = "ctxDone" /\ ret' = Canceled
          \/ pc' = "done" /\ retAt' = "errCh" /\ Ready(errCh)
                /\ ret' = Recv(errCh).val
          \/ pc' = "check" /\ ret' = ret]_vars

\* C6 witness: Run has returned the context's error although a completion
\* result was available in the channel.
C6_Witness ==
    /\ pc = "done" /\ retAt = "ctxDone" /\ ret = Canceled /\ outerDone
    /\ errCh # 0 /\ chans[errCh].buf # <<>>

\* C7: freshness: the certificate handed to invocation n+1 was read from disk
\* after Run had received the result of invocation n.
C7_Freshness ==
    \A n \in Invs : (n > 1 /\ g[n].st # "none") => (n - 1) \in g[n].cert.seen

\* The current invocation of f runs with the latest certificate of the
\* directory, and Run is alive.
RunsLatest ==
    /\ pc # "done" /\ ~panicked
    /\ errCh # 0 /\ g[errCh].st = "running"
    /\ g[errCh].cert.certgen = gen /\ g[errCh].cert.keygen = gen

\* C8: no lost renewals: under the hypotheses of LiveSpec, eventually the
\* running invocation of f is the one handed the last certificate, and it is
\* never replaced afterwards.
C8_NoLostRenewals == <>[]RunsLatest

\* check fails at Run's position.
ProbeFails ==
    \/ pc = "check" /\ ~certFile.present
    \/ pc = "stat_key" /\ ~keyFile.present

\* tls.LoadX509KeyPair fails at Run's position.
LoadFails ==
    \/ pc = "load_cert" /\ ~certFile.present
    \/ pc = "load_key" /\ (~keyFile.present \/ keyFile.gen # cert.certgen)

\* C9: a failing probe or load makes Run return that failure at once, with no
\* further tick and no start; after a failing first probe f was never invoked.
C9_FailuresFatal ==
    [][/\ (ProbeFails /\ pc' # pc) =>
             (pc' = "done" /\ ret' = "probeErr" /\ ninv' = ninv)
       /\ (LoadFails /\ pc' # pc) =>
             (pc' = "done" /\ ret' = "loadErr" /\ ninv' = ninv)
       /\ Terminated
       /\ (pc' = "done" /\ ret' = "probeErr" /\ last' = ZeroPair /\ errCh' = 0)
             => ninv' = 0]_vars

\* C9 witness: a probe failed while an invocation was running and Run returned
\* the failure.
C9_Witness ==
    pc = "done" /\ ret = "probeErr" /\ retAt = "check" /\ ninv = 1

\* The probe underway completes with a pair equal to last.
NoOpTick ==
    /\ pc = "stat_key" /\ keyFile.present
    /\ equal([cert |-> next.cert, key |-> keyFile.mtime], last)

\* C10: a tick whose probed pair equals last cancels nothing, loads nothing,
\* starts nothing and leaves last, errCh and fctx as they were.
C10_NoOpTick ==
    [][(NoOpTick /\ pc' # pc) =>
          /\ pc' = "select"
          /\ UNCHANGED <<last, errCh, fctx, fdone, runDone, cert, ninv, chans,
                         g, preempted, ret>>]_vars

\* C10 witness: a probe is about to complete with an unchanged pair while an
\* invocation of f is running.
C10_Witness ==
    NoOpTick /\ errCh # 0 /\ g[errCh].st = "running" /\ ~fdone[g[errCh].ctx]

----------------------------------------------------------------------------
\* Run started in a directory whose two files may carry the zero time instant
\* as modification time (time.Unix(-62135596800, 0), which time.Time.Equal
\* finds equal to time.Time{}: 0 stands for it; every later write of the
\* directory carries a time of 1..MaxTime).
ZeroInit ==
    /\ \/ Dir(Absent, Absent)
       \/ Dir(File(1, 0), File(1, 0))
       \/ Dir(File(0, 0), File(0, 0))
    /\ Entry
    /\ NoProducers

ZeroSpec == ZeroInit /\ [][Next]_vars

\* The pair the probe underway returns, and the end of a successful probe.
Probed == [cert |-> next.cert, key |-> keyFile.mtime]

ProbeEnds == pc = "stat_key" /\ keyFile.present /\ pc' # pc

\* Run takes the branch of "if !next.equal(last)".
TreatedAsChange == pc' \in {"fcancel", "load_cert"}

\* C11: change detection: a successful probe is treated as a change if and
\* only if the probed pair differs from last in at least one component, and
\* as long as no invocation was started (last is the unset zero-value pair) a
\* successful probe is always treated as a change.
C11_ChangeDetection ==
    [][ProbeEnds =>
          /\ TreatedAsChange <=>
                (Probed.cert # last.cert \/ Probed.key # last.key)
          /\ (ninv = 0 /\ last = ZeroPair) => TreatedAsChange]_vars

\* C12: cancellation scopes: once the outer context is cancelled, Run's own
\* context, the context fctx and the context of every invocation that has not
\* returned are cancelled; Run's preemption cancel cancels the context of the
\* current invocation and no other context, Run's own included; a start makes
\* a new context that is cancelled only if the outer context is, and cancels
\* no other.
C12_CancellationScopes ==
    [][/\ outerDone' =>
             /\ runDone' /\ fdone'[fctx']
             /\ \A n \in Invs : g'[n].st \in {"spawned", "running"}
                                     => fdone'[g'[n].ctx]
       /\ (pc = "fcancel" /\ pc' # pc) =>
             /\ fdone'[fctx] /\ runDone' = runDone
             /\ \A c \in 0..MaxInv : c # fctx => fdone'[c] = fdone[c]
       /\ (ninv' # ninv) =>
             /\ fctx' # fctx /\ fdone'[fctx'] = outerDone
             /\ runDone' = runDone
             /\ \A c \in 0..MaxInv : c # fctx' => fdone'[c] = fdone[c]]_vars

\* C12 witness: invocation 1 was preempted and its context is cancelled, while
\* Run's own context and the context of the running invocation 2 are live.
C12_Witness ==
    /\ ninv = 2 /\ 1 \in preempted /\ fdone[1] /\ ~fdone[2] /\ ~runDone
    /\ fctx = 2 /\ g[2].st = "running" /\ g[2].ctx = 2

\* C17: no leaked consumer goroutine after Run returns: every invocation that
\* has not returned has its context cancelled, and every goroutine still to
\* send or to close can do so at once: whichever channel it reads from errCh is
\* open and, for the send, has room.
C17_NoLeakedConsumer ==
    pc = "done" =>
        \A n \in Invs :
            /\ g[n].st = "spawned" =>
                  \A c \in RacyRead(g[n].ctx, fctx) : fdone[c]
            /\ g[n].st = "running" => fdone[g[n].ctx]
            /\ g[n].st = "returned" =>
                  \A c \in RacyRead(g[n].ch, errCh) :
                      ~chans[c].closed /\ Len(chans[c].buf) < 1
            /\ g[n].st = "sent" =>
                  \A c \in RacyRead(g[n].ch, errCh) : ~chans[c].closed

\* The modification times of the two files now.
OnDisk == [cert |-> certFile.mtime, key |-> keyFile.mtime]

----------------------------------------------------------------------------
\* Claims about package certs.

\* The pair of modification times the poll underway sees, and its end.
Polled == [cert |-> tm.cur, key |-> keyFile.mtime]

PollEnds == tm.pc = "stat_key" /\ keyFile.present /\ tm'.pc # tm.pc

\* C13: certs.Times reports every change: a poll that sees a pair of
\* modification times differing from the pair the previous poll saw goes on to
\* send a timestamp on the channel.
C13_TimesReportsEveryChange ==
    [][(PollEnds /\ tm.prev # ZeroPair /\ Polled # tm.prev)
          => tm'.pc = "send"]_vars

\* C19: certs.FromDir leaves no poller behind: with FromDir's goroutine gone
\* (its channel closed) and the context live, the goroutine of Times is not
\* blocked sending a timestamp, which nobody is left to receive.
C19_NoPollerLeftBehind ==
    (fd.pc = "done" /\ fd.closed /\ ~outerDone) => tm.pc # "send"

----------------------------------------------------------------------------
\* Claims about package certdir's FromDir and FromCommand.

\* C14: certdir.FromDir stops on cancellation: once the context is cancelled
\* the goroutine eventually terminates with its channel closed and *errptr
\* set (to the context's error, or to the error that ended it first).
C14_FromDirStopsOnCancel ==
    outerDone ~> (fd.pc = "done" /\ fd.closed /\ fd.errptr # Nil)

\* C15: certdir.FromCommand closes its channel: whenever the decoding goroutine
\* has stopped, the channel is closed.
C15_FromCommandClosesChannel == fc.pc = "done" => fc.closed

\* C16: certs.FromCommand's wait, called after the channel is closed, returns
\* an error that holds the error of cmd.Wait, if there is one, and the error
\* the goroutine recorded, if there is one; it returns nil only if there is
\* neither.
C16_WaitJoinsErrors ==
    fc.waited =>
        /\ fc.waitErr # Nil => fc.waitErr \in fc.res
        /\ fc.errptr # Nil => fc.errptr \in fc.res
        /\ fc.res = {} => (fc.waitErr = Nil /\ fc.errptr = Nil)

\* C16 witness: the subprocess failed and the goroutine stopped on a pair it
\* could not parse; wait has returned both errors.
C16_Witness ==
    /\ fc.waited /\ fc.waitErr = "exitErr" /\ fc.errptr = "parseErr"
    /\ fc.res = {"exitErr", "parseErr"} /\ ~outerDone

====
